---------------------------- MODULE Spec2Model ----------------------------
(***************************************************************************)
(* RVT-H bank table write-back (librvth/rvth_p.c): the writability gate,   *)
(* the block emptiness scanner and rvth_write_BankEntry(), over a backing  *)
(* store modelled sector by sector and byte by byte.                      *)
(***************************************************************************)
EXTENDS Integers, Sequences, FiniteSets, TLC

\* ------------------------------------------------------------------ bounds
\* Largest bank number a caller passes (RVTH_BANK_COUNT and above are out of range).
MaxBankArg == 9
\* Largest scanned block, in 64-byte groups.
MaxGroups == 2
\* Largest rotation of the type magics of a stored bank table.
MaxRotation == 3
\* Size of the store that Readers are opened on, in sectors.
StoreSectors == 112
\* Largest number of read calls one Reader makes, one after the other.
MaxReadCalls == 2
\* Largest number of Readers with reads in flight at the same time.
MaxReaders == 2
\* Largest number of disks the system enumerates.
MaxDevices == 2

\* --------------------------------------------------------- program constants
RVTH_BANK_COUNT == 8
RVTH_BLOCK_SIZE == 512
\* RVTH_BANKTABLE_ADDRESS (0x60000000) in 512-byte sectors.
NHCD_BANKTABLE_ADDRESS_LBA == 3145728

RVTH_BankType_Empty == 0
RVTH_BankType_Unknown == 1
RVTH_BankType_GCN == 2
RVTH_BankType_Wii_SL == 3
RVTH_BankType_Wii_DL == 4
RVTH_BankType_Wii_DL_Bank2 == 5
BankTypes == RVTH_BankType_Empty..RVTH_BankType_Wii_DL_Bank2

\* On-disk type magics: 0, "GC1L", "NN1L", "NN2L".
NHCD_BankType_Empty == 0
NHCD_BankType_GCN == 1195585868
NHCD_BankType_Wii_SL == 1313747276
NHCD_BankType_Wii_DL == 1313747532

\* RvtH_Errors (positive) and the POSIX codes the code names or receives.
RVTH_ERROR_BANK_UNKNOWN == 4
RVTH_ERROR_BANK_DL_2 == 6
RVTH_ERROR_NOT_A_DEVICE == 7
RVTH_ERROR_NOT_HDD_IMAGE == 10
EIO == 5
EACCES == 13
EINVAL == 22
ENOSPC == 28
ERANGE == 34

\* ------------------------------------------------------------ byte helpers
Zeros(n) == [i \in 1..n |-> 0]
Fill(n, b) == [i \in 1..n |-> b]

\* cpu_to_be32(): the four bytes of x in memory order, most significant first.
cpu_to_be32(x) ==
    << x \div 16777216, (x \div 65536) % 256, (x \div 256) % 256, x % 256 >>

\* be32_to_cpu(): the value of four bytes read most significant first.
be32_to_cpu(b) == ((b[1] * 256 + b[2]) * 256 + b[3]) * 256 + b[4]

\* LBA_TO_BYTES(): sector number to byte offset.
LBA_TO_BYTES(lba) == lba * RVTH_BLOCK_SIZE

\* rvth_timestamp_create(): 14 ASCII digits, "YYYYMMDD" then "HHMMSS".
\* The two clock readings are 2018-01-12 22:27:20 and 2019-03-04 05:06:07.
Timestamps ==
    { << 50, 48, 49, 56, 48, 49, 49, 50, 50, 50, 50, 55, 50, 48 >>,
      << 50, 48, 49, 57, 48, 51, 48, 52, 48, 53, 48, 54, 48, 55 >> }

\* The on-disk bank entry (struct layout): type, all_zero[14], mdate[8]+mtime[6],
\* lba_start, lba_len, unk[472]; 512 bytes.
NHCD_BankEntry(type4, all_zero, timestamp, lba_start4, lba_len4, unk) ==
    type4 \o all_zero \o timestamp \o lba_start4 \o lba_len4 \o unk

\* memset(&nhcd_entry, 0, sizeof(nhcd_entry))
ZeroEntry == Zeros(RVTH_BLOCK_SIZE)


\* ------------------------------------------------------- in-memory handle
RVTH_ImageType_HDD_Reader == "HDD_Reader"
RVTH_ImageType_HDD_Image == "HDD_Image"
RVTH_ImageType_GCM == "GCM"
ImageTypes ==
    {RVTH_ImageType_HDD_Reader, RVTH_ImageType_HDD_Image, RVTH_ImageType_GCM}

\* rvth_is_hdd(): the image is an HDD (multiple banks), not a standalone disc image.
rvth_is_hdd(t) == t \in {RVTH_ImageType_HDD_Reader, RVTH_ImageType_HDD_Image}

\* (lba_start, lba_len) of the in-memory entries: bank 1's start with the maximum
\* bank size, an asymmetric start with length 1, start 0 with the largest
\* length below 2^31, and the all-zero pair.
LbaPairs ==
    << <<3145737, 9193984>>, <<16909060, 1>>, <<0, 2147483647>>, <<0, 0>> >>

\* Bank types of the in-memory table, before rotation.
TableTypes ==
    << RVTH_BankType_GCN, RVTH_BankType_Wii_SL, RVTH_BankType_Wii_DL,
       RVTH_BankType_Wii_DL_Bank2, RVTH_BankType_Empty, RVTH_BankType_Unknown,
       RVTH_BankType_GCN, RVTH_BankType_Empty >>

\* RvtH_BankEntry: the fields of the in-memory entry that the write-back reads.
BankEntry(t, del, pair) ==
    [type |-> t, is_deleted |-> del, lba_start |-> pair[1], lba_len |-> pair[2]]

\* The in-memory table of a handle: rotation rot of TableTypes, deletion of the
\* banks in dels, the LBA pairs in turn.
EntryTable(n, rot, dels) ==
    [i \in 0..(n - 1) |->
        BankEntry(TableTypes[((i + rot) % RVTH_BANK_COUNT) + 1],
                  i \in dels,
                  LbaPairs[(i % Len(LbaPairs)) + 1])]

\* --------------------------------------------------------- backing store
\* The sectors of the store that are modelled: the sector before the bank
\* table, the table header, the 8 entries and the first sector of bank 1.
Sectors ==
    (NHCD_BANKTABLE_ADDRESS_LBA - 1)..(NHCD_BANKTABLE_ADDRESS_LBA + RVTH_BANK_COUNT + 1)

\* RVTH_BankTable_Header: "NHCD", 1, 8, 0, 0x002FF000, unk[492].
BankTableHeader ==
    cpu_to_be32(1313358660) \o cpu_to_be32(1) \o cpu_to_be32(8)
        \o cpu_to_be32(0) \o cpu_to_be32(3141632) \o Zeros(492)

\* The store as found on open: a bank table whose 8 entries are stale GCN
\* records with a non-zero reserved area, between payload sectors.
InitialDisk ==
    [s \in Sectors |->
        IF s = NHCD_BANKTABLE_ADDRESS_LBA THEN BankTableHeader
        ELSE IF s > NHCD_BANKTABLE_ADDRESS_LBA
                /\ s <= NHCD_BANKTABLE_ADDRESS_LBA + RVTH_BANK_COUNT
        THEN NHCD_BankEntry(cpu_to_be32(NHCD_BankType_GCN), Fill(14, 48),
                            CHOOSE t \in Timestamps : t[4] = 56,
                            cpu_to_be32(3145737), cpu_to_be32(9193984),
                            Fill(472, 85))
        ELSE Fill(RVTH_BLOCK_SIZE, 17)]

Max(a, b) == IF a >= b THEN a ELSE b
Min(a, b) == IF a <= b THEN a ELSE b

\* ref_write(): n bytes of buf stored at byte offset pos. Sector s holds bytes
\* LBA_TO_BYTES(s) .. LBA_TO_BYTES(s) + 511 of the store; lo .. hi - 1 are the
\* bytes of the sector that the write covers.
ref_write(d, pos, buf, n) ==
    [s \in Sectors |->
        LET base == LBA_TO_BYTES(s)
            lo == Max(pos, base)
            hi == Min(pos + n, base + RVTH_BLOCK_SIZE)
        IN  IF lo >= hi THEN d[s]
            ELSE SubSeq(d[s], 1, lo - base)
                   \o SubSeq(buf, lo - pos + 1, hi - pos)
                   \o SubSeq(d[s], hi - base + 1, RVTH_BLOCK_SIZE)]

\* Outcomes of ref_make_writable(): 0, or a negative POSIX code.
EscalateOutcomes == {0, -EACCES}
\* errno stored by a failing ref_seeko() / ref_write(); 0: errno is left as it was.
SeekErrnos == {0, EIO}
WriteErrnos == {0, ENOSPC}
\* Number of bytes a short write stores.
ShortWrites == {0, 36}

\* ----------------------------------------------------------------- state
VARIABLES
    type,           \* rvth->type
    bank_count,     \* rvth->bank_count
    entries,        \* rvth->entries[]
    f_writable,     \* ref_is_writable(rvth->f_img)
    f_device,       \* ref_is_device(rvth->f_img)
    disk,           \* the bytes of the store, by sector
    f_pos,          \* file position of rvth->f_img
    errno,          \* the C errno
    phase,          \* "idle", or "done" once the call under study returned
    call,           \* the last call: function, bank argument, NULL handle
    ret,            \* its return value
    ops,            \* the store operations it made, in order
    pre,            \* disk and writability before it
    block,          \* the block last given to rvth_is_block_empty()
    block_empty,    \* its result
    readers,        \* the Readers opened on rvth->f_img, in order of creation
    reads,          \* per Reader: its read call and how far it has got
    devices,        \* the disks the system enumerates, in enumeration order
    pErr,           \* the caller's int *pErr: NULL or not, and the int's value
    query           \* what rvth_query_devices() returned and left behind

vars == << type, bank_count, entries, f_writable, f_device, disk, f_pos, errno,
           phase, call, ret, ops, pre, block, block_empty,
           readers, reads, devices, pErr, query >>

handleVars == << type, bank_count, entries, f_device >>
scanVars == << block, block_empty >>
readerVars == << readers, reads >>
queryVars == << devices, pErr, query >>

NoCall == [fn |-> "none", bank |-> 0, null |-> FALSE]
NoQuery == [called |-> FALSE]

\* What the claims compare the state after a call with.
Snapshot ==
    [disk |-> disk, writable |-> f_writable, entries |-> entries,
     bank_count |-> bank_count, type |-> type]

Init ==
    /\ type \in ImageTypes
    /\ bank_count = IF rvth_is_hdd(type) THEN RVTH_BANK_COUNT ELSE 1
    /\ \E rot \in 0..(RVTH_BANK_COUNT - 1), dels \in {{}, 0..(RVTH_BANK_COUNT - 1)} :
            entries = EntryTable(bank_count, rot, dels)
    /\ f_device = (type = RVTH_ImageType_HDD_Reader)
    /\ f_writable \in BOOLEAN
    /\ disk = InitialDisk
    /\ f_pos = 0
    /\ errno \in {0, ERANGE}
    /\ phase = "idle"
    /\ call = NoCall
    /\ ret = 0
    /\ ops = << >>
    /\ pre = Snapshot
    /\ block = << >>
    /\ block_empty = TRUE
    /\ readers = << >>
    /\ reads = << >>
    /\ devices = << >>
    /\ pErr = [null |-> TRUE, val |-> 0]
    /\ query = NoQuery


\* ------------------------------------------------------ writability gate
Op(name, arg, res) == [op |-> name, arg |-> arg, res |-> res]
B2I(b) == IF b THEN 1 ELSE 0

\* Mutant of make_writable: the device check is missing.
make_writable_NoDeviceCheck(w, d, esc) ==
    IF w
    THEN [ret |-> 0, writable |-> w, errno |-> 0,
          ops |-> << Op("ref_is_writable", 0, B2I(w)) >>]
    ELSE [ret |-> esc, writable |-> (esc = 0),
          errno |-> IF esc = 0 THEN 0 ELSE -esc,
          ops |-> << Op("ref_is_writable", 0, B2I(w)),
                     Op("ref_make_writable", 0, esc) >>]

\* Mutant of make_writable: the outcome of the escalation is dropped.
make_writable_IgnoresOutcome(w, d, esc) ==
    IF w
    THEN [ret |-> 0, writable |-> w, errno |-> 0,
          ops |-> << Op("ref_is_writable", 0, B2I(w)) >>]
    ELSE IF ~d
    THEN [ret |-> RVTH_ERROR_NOT_A_DEVICE, writable |-> w, errno |-> 0,
          ops |-> << Op("ref_is_writable", 0, B2I(w)), Op("ref_is_device", 0, B2I(d)) >>]
    ELSE [ret |-> 0, writable |-> (esc = 0),
          errno |-> IF esc = 0 THEN 0 ELSE -esc,
          ops |-> << Op("ref_is_writable", 0, B2I(w)), Op("ref_is_device", 0, B2I(d)),
                     Op("ref_make_writable", 0, esc) >>]

\* rvth_make_writable() on a store that reports writable w and device d, where
\* ref_make_writable() would return esc: the return value, the writability
\* afterwards, the errno stored (0: none) and the store operations made.
make_writable(w, d, esc) ==
    IF w
    THEN [ret |-> 0, writable |-> w, errno |-> 0,
          ops |-> << Op("ref_is_writable", 0, B2I(w)) >>]
    ELSE IF ~d
    THEN [ret |-> RVTH_ERROR_NOT_A_DEVICE, writable |-> w, errno |-> 0,
          ops |-> << Op("ref_is_writable", 0, B2I(w)), Op("ref_is_device", 0, B2I(d)) >>]
    ELSE [ret |-> esc, writable |-> (esc = 0),
          errno |-> IF esc = 0 THEN 0 ELSE -esc,
          ops |-> << Op("ref_is_writable", 0, B2I(w)), Op("ref_is_device", 0, B2I(d)),
                     Op("ref_make_writable", 0, esc) >>]

\* errno after a callee stored e (0: it stored nothing).
Stored(old, e) == IF e = 0 THEN old ELSE e

rvth_make_writable ==
    /\ phase = "idle"
    /\ \E esc \in EscalateOutcomes :
        LET g == make_writable(f_writable, f_device, esc)
        IN  /\ f_writable' = g.writable
            /\ errno' = Stored(errno, g.errno)
            /\ ret' = g.ret
            /\ ops' = g.ops
    /\ call' = [fn |-> "rvth_make_writable", bank |-> 0, null |-> FALSE]
    /\ pre' = Snapshot
    /\ UNCHANGED << handleVars, disk, f_pos, phase, scanVars, readerVars, queryVars >>

\* ------------------------------------------------------ bank entry write
\* The checks made before the gate, in the order of the code: the return value
\* and the errno stored, or 0 and 0 when every check passes.
\* ("bank >= rvth->bank_count" is BankOutOfRange.)
\* Mutant of BankOutOfRange: off by one.
BankOutOfRange_OffByOne(bank) == bank > bank_count

BankOutOfRange(bank) == bank >= bank_count

\* Mutant of check_arguments: the bank number is checked before the image type.
check_arguments_RangeFirst(null, bank) ==
    IF null
    THEN [ret |-> -EINVAL, errno |-> EINVAL]
    ELSE IF BankOutOfRange(bank)
    THEN [ret |-> -ERANGE, errno |-> ERANGE]
    ELSE IF ~rvth_is_hdd(type)
    THEN [ret |-> RVTH_ERROR_NOT_HDD_IMAGE, errno |-> EINVAL]
    ELSE [ret |-> 0, errno |-> 0]

check_arguments(null, bank) ==
    IF null
    THEN [ret |-> -EINVAL, errno |-> EINVAL]
    ELSE IF ~rvth_is_hdd(type)
    THEN [ret |-> RVTH_ERROR_NOT_HDD_IMAGE, errno |-> EINVAL]
    ELSE IF BankOutOfRange(bank)
    THEN [ret |-> -ERANGE, errno |-> ERANGE]
    ELSE [ret |-> 0, errno |-> 0]

\* Mutant of DeletedSkip: the early test of is_deleted is missing.
DeletedSkip_Never(e) == FALSE

\* "if (rvth_entry->is_deleted) goto skip_creating_bank_entry"
DeletedSkip(e) == e.is_deleted

\* Mutant of bank_type_switch: the second bank of a dual-layer image is written
\* as a dual-layer bank.
bank_type_switch_DL2Written(t) ==
    CASE t = RVTH_BankType_Empty -> [ret |-> 0, type |-> NHCD_BankType_Empty]
      [] t = RVTH_BankType_GCN -> [ret |-> 0, type |-> NHCD_BankType_GCN]
      [] t = RVTH_BankType_Wii_SL -> [ret |-> 0, type |-> NHCD_BankType_Wii_SL]
      [] t = RVTH_BankType_Wii_DL -> [ret |-> 0, type |-> NHCD_BankType_Wii_DL]
      [] t = RVTH_BankType_Wii_DL_Bank2 -> [ret |-> 0, type |-> NHCD_BankType_Wii_DL]
      [] OTHER -> [ret |-> RVTH_ERROR_BANK_UNKNOWN, type |-> 0]

\* The switch on rvth_entry->type: the NHCD type magic of a bank type that can
\* be written, or the error that refuses the entry.
bank_type_switch(t) ==
    CASE t = RVTH_BankType_Empty -> [ret |-> 0, type |-> NHCD_BankType_Empty]
      [] t = RVTH_BankType_GCN -> [ret |-> 0, type |-> NHCD_BankType_GCN]
      [] t = RVTH_BankType_Wii_SL -> [ret |-> 0, type |-> NHCD_BankType_Wii_SL]
      [] t = RVTH_BankType_Wii_DL -> [ret |-> 0, type |-> NHCD_BankType_Wii_DL]
      [] t = RVTH_BankType_Wii_DL_Bank2 -> [ret |-> RVTH_ERROR_BANK_DL_2, type |-> 0]
      [] OTHER -> [ret |-> RVTH_ERROR_BANK_UNKNOWN, type |-> 0]

\* "Bank is either empty or deleted. Don't bother doing anything with it."
EmptySkip(e) == e.type = RVTH_BankType_Empty \/ e.is_deleted

\* Mutant of LbaFields: the two fields are stored in each other's place.
LbaFields_Swapped(e) == cpu_to_be32(e.lba_len) \o cpu_to_be32(e.lba_start)

\* nhcd_entry.lba_start and nhcd_entry.lba_len, as stored.
LbaFields(e) == cpu_to_be32(e.lba_start) \o cpu_to_be32(e.lba_len)

\* Creation of the NHCD bank entry for in-memory entry e at clock reading ts:
\* ret is 0 and rec the 512-byte record, or ret is the error that refuses it.
create_bank_entry(e, ts) ==
    IF DeletedSkip(e)
    THEN [ret |-> 0, rec |-> ZeroEntry]
    ELSE LET sw == bank_type_switch(e.type)
         IN  IF sw.ret # 0
             THEN [ret |-> sw.ret, rec |-> ZeroEntry]
             ELSE IF EmptySkip(e)
             THEN [ret |-> 0,
                   rec |-> NHCD_BankEntry(cpu_to_be32(sw.type), Zeros(14), Zeros(14),
                                          Zeros(4), Zeros(4), Zeros(472))]
             ELSE [ret |-> 0,
                   rec |-> NHCD_BankEntry(cpu_to_be32(sw.type), Fill(14, 48), ts,
                                          SubSeq(LbaFields(e), 1, 4),
                                          SubSeq(LbaFields(e), 5, 8), Zeros(472))]

\* Mutant of BankEntryOffset: the header slot is not skipped.
BankEntryOffset_NoHeader(bank) == LBA_TO_BYTES(NHCD_BANKTABLE_ADDRESS_LBA + bank)

\* Byte offset of bank's entry in the store: the header is slot 0.
BankEntryOffset(bank) == LBA_TO_BYTES(NHCD_BANKTABLE_ADDRESS_LBA + bank + 1)

\* &rvth->entries[bank]; the index is in range wherever the code reads it.
EntryAt(bank) ==
    IF bank \in DOMAIN entries THEN entries[bank]
    ELSE BankEntry(RVTH_BankType_GCN, FALSE, LbaPairs[1])

\* Outcomes of ref_seeko() and of ref_write() of one entry.
SeekOutcomes == {[ok |-> TRUE, errno |-> 0]} \cup [ok : {FALSE}, errno : SeekErrnos]
WriteOutcomes ==
    {[n |-> RVTH_BLOCK_SIZE, errno |-> 0]} \cup [n : ShortWrites, errno : WriteErrnos]

\* Mutant of io_error: errno is returned without the sign change.
io_error_Positive(e) ==
    [errno |-> IF e = 0 THEN EIO ELSE e, ret |-> IF e = 0 THEN EIO ELSE e]

\* "if (errno == 0) errno = EIO; return -errno": the errno and the return value
\* after a failed store operation left e in errno.
io_error(e) ==
    [errno |-> IF e = 0 THEN EIO ELSE e, ret |-> -(IF e = 0 THEN EIO ELSE e)]

\* Mutant of seek_failed: the result of the seek is not looked at.
seek_failed_Ignored(sk) == FALSE

\* "ret = ref_seeko(...); if (ret != 0)"
seek_failed(sk) == ~sk.ok

\* "Write the bank entry": seek to the slot and write the record, from state st.
\* A store that is not writable stores nothing and reports EINVAL.
write_entry(st, bank, rec, sk, wr) ==
    LET off == BankEntryOffset(bank)
        n == IF st.writable THEN wr.n ELSE 0
        we == IF st.writable THEN wr.errno ELSE EINVAL
        s1 == [st EXCEPT !.ops = @ \o << Op("ref_seeko", off, IF sk.ok THEN 0 ELSE -1) >>]
        s2 == [s1 EXCEPT !.pos = off + n,
                         !.disk = ref_write(st.disk, off, rec, n),
                         !.ops = @ \o << Op("ref_write", off, n) >>]
    IN  IF seek_failed(sk)
        THEN [s1 EXCEPT !.errno = io_error(Stored(st.errno, sk.errno)).errno,
                        !.ret = io_error(Stored(st.errno, sk.errno)).ret]
        ELSE IF n # RVTH_BLOCK_SIZE
        THEN [s2 EXCEPT !.errno = io_error(Stored(st.errno, we)).errno,
                        !.ret = io_error(Stored(st.errno, we)).ret]
        ELSE [s2 EXCEPT !.ret = 0]

\* Mutant of gate_failed: the result of the gate is not looked at.
gate_failed_Ignored(g) == FALSE

\* "ret = rvth_make_writable(rvth); if (ret != 0) return ret;"
gate_failed(g) == g.ret # 0

\* Mutant of entries_after: a deleted entry that was written is reset to an
\* empty entry that is not deleted.
entries_after_ResetsDeleted(es, bank, r) ==
    IF r = 0 /\ es[bank].is_deleted
    THEN [es EXCEPT ![bank].is_deleted = FALSE, ![bank].type = RVTH_BankType_Empty]
    ELSE es

\* rvth->entries when the call for bank returns r: rvth_entry is only read.
entries_after(es, bank, r) == es

\* rvth_write_BankEntry(rvth, bank): null is rvth == NULL; ts, esc, sk and wr are
\* the clock reading and the outcomes the store operations would have.
write_BankEntry(null, bank, ts, esc, sk, wr) ==
    LET st == [ret |-> 0, errno |-> errno, writable |-> f_writable,
               disk |-> disk, pos |-> f_pos, ops |-> << >>, entries |-> entries]
        chk == check_arguments(null, bank)
        g == make_writable(f_writable, f_device, esc)
        s1 == [st EXCEPT !.writable = g.writable,
                         !.ops = g.ops \o << Op("rvth_make_writable", 0, g.ret) >>,
                         !.errno = Stored(@, g.errno)]
        c == create_bank_entry(EntryAt(bank), ts)
        s2 == [s1 EXCEPT !.ops = @ \o << Op("entries", bank, 0) >>]
        r == IF chk.ret # 0
             THEN [st EXCEPT !.ret = chk.ret, !.errno = chk.errno]
             ELSE IF gate_failed(g)
             THEN [s1 EXCEPT !.ret = g.ret]
             ELSE IF c.ret # 0
             THEN [s2 EXCEPT !.ret = c.ret]
             ELSE write_entry(s2, bank, c.rec, sk, wr)
    IN  [r EXCEPT !.entries = entries_after(@, bank, r.ret)]

\* The call makes store operation name (seen on the run where every store
\* operation succeeds); the outcome of an operation is drawn only if it is made.
Makes(null, bank, name) ==
    LET r == write_BankEntry(null, bank, CHOOSE t \in Timestamps : TRUE, 0,
                             [ok |-> TRUE, errno |-> 0],
                             [n |-> RVTH_BLOCK_SIZE, errno |-> 0])
    IN  \E i \in 1..Len(r.ops) : r.ops[i].op = name

rvth_write_BankEntry ==
    /\ phase = "idle"
    /\ \E null \in BOOLEAN, bank \in 0..MaxBankArg :
       \E esc \in IF Makes(null, bank, "ref_make_writable") THEN EscalateOutcomes ELSE {0} :
       \E sk \in IF esc = 0 /\ Makes(null, bank, "ref_seeko")
                 THEN SeekOutcomes ELSE {[ok |-> TRUE, errno |-> 0]} :
       \E wr \in IF esc = 0 /\ sk.ok /\ Makes(null, bank, "ref_write")
                 THEN WriteOutcomes ELSE {[n |-> RVTH_BLOCK_SIZE, errno |-> 0]} :
       \E ts \in IF esc = 0 /\ sk.ok /\ wr.n > 0 /\ Makes(null, bank, "ref_write")
                 THEN Timestamps ELSE {CHOOSE t \in Timestamps : TRUE} :
        LET r == write_BankEntry(null, bank, ts, esc, sk, wr)
        IN  /\ f_writable' = r.writable
            /\ disk' = r.disk
            /\ f_pos' = r.pos
            /\ errno' = r.errno
            /\ ret' = r.ret
            /\ ops' = r.ops
            /\ entries' = r.entries
            /\ call' = [fn |-> "rvth_write_BankEntry", bank |-> bank, null |-> null]
    /\ pre' = Snapshot
    /\ phase' = "done"
    /\ UNCHANGED << type, bank_count, f_device, scanVars, readerVars, queryVars >>

\* ----------------------------------------------------------- table parse
\* The bank type of an on-disk type magic; an unrecognized magic is Unknown.
parse_type(magic) ==
    CASE magic = NHCD_BankType_Empty -> RVTH_BankType_Empty
      [] magic = NHCD_BankType_GCN -> RVTH_BankType_GCN
      [] magic = NHCD_BankType_Wii_SL -> RVTH_BankType_Wii_SL
      [] magic = NHCD_BankType_Wii_DL -> RVTH_BankType_Wii_DL
      [] OTHER -> RVTH_BankType_Unknown

\* The type and LBA fields read from a 512-byte on-disk bank entry.
parse_entry(rec) ==
    [type |-> parse_type(be32_to_cpu(SubSeq(rec, 1, 4))),
     lba_start |-> be32_to_cpu(SubSeq(rec, 33, 36)),
     lba_len |-> be32_to_cpu(SubSeq(rec, 37, 40))]

RVTH_BANKTABLE_MAGIC == 1313358660
RVTH_ERROR_NHCD_TABLE_MAGIC == 2
RVTH_ImageType_Unknown == "Unknown"

\* Mutant of BankTableEntry: the header is taken for entry 0.
BankTableEntry_NoHeader(d, i) == d[NHCD_BANKTABLE_ADDRESS_LBA + i]

\* RVTH_BankTable: the header, then entries[8]; the record of entries[i] in store d.
BankTableEntry(d, i) == d[NHCD_BANKTABLE_ADDRESS_LBA + 1 + i]

\* RVTH_BankTable_Header.magic, big-endian at [0x000].
HeaderMagic(d) == be32_to_cpu(SubSeq(d[NHCD_BANKTABLE_ADDRESS_LBA], 1, 4))

\* parse(): the magic of the header is validated, then each of the 8 entries is
\* converted on its own; ret is 0 and entries the in-memory table, or ret is
\* the error that rejects the store.
parse_table(d) ==
    IF HeaderMagic(d) # RVTH_BANKTABLE_MAGIC
    THEN [ret |-> RVTH_ERROR_NHCD_TABLE_MAGIC, entries |-> << >>]
    ELSE [ret |-> 0,
          entries |-> [i \in 0..(RVTH_BANK_COUNT - 1) |->
                        LET e == parse_entry(BankTableEntry(d, i))
                        IN  BankEntry(e.type, FALSE, << e.lba_start, e.lba_len >>)]]

\* Opening a store: the handle is populated from the bank table, or not created.
parse ==
    /\ phase = "idle"
    /\ LET r == parse_table(disk)
       IN  /\ ret' = r.ret
           /\ IF r.ret = 0
              THEN /\ entries' = r.entries
                   /\ bank_count' = RVTH_BANK_COUNT
                   /\ type' = IF f_device THEN RVTH_ImageType_HDD_Reader
                                         ELSE RVTH_ImageType_HDD_Image
              ELSE UNCHANGED << entries, bank_count, type >>
    /\ call' = [fn |-> "parse", bank |-> 0, null |-> FALSE]
    /\ pre' = Snapshot
    /\ phase' = "done"
    /\ UNCHANGED << f_device, f_writable, disk, f_pos, errno, ops, scanVars,
                    readerVars, queryVars >>

\* Type magics of the entries of a stored table, before rotation.
StoredMagics ==
    << NHCD_BankType_GCN, NHCD_BankType_Wii_SL, NHCD_BankType_Wii_DL,
       NHCD_BankType_Empty, NHCD_BankType_Wii_DL, NHCD_BankType_GCN,
       NHCD_BankType_Empty, NHCD_BankType_Wii_SL >>
\* Magics no bank type has: 1, "GC1M", "NHCD", 0x7FFFFFFF.
GarbageMagics == {1, 1195585869, 1313358660, 2147483647}
\* Header magics: "NHCD", 0, "NHCE", "DCHN".
HeaderMagics == {RVTH_BANKTABLE_MAGIC, 0, 1313358661, 1145260110}

\* A store whose table has header magic hm and the entries of rotation rot of
\* StoredMagics, entry k (if any) holding the garbage magic g.
TableDisk(hm, rot, k, g) ==
    [s \in Sectors |->
        LET i == s - NHCD_BANKTABLE_ADDRESS_LBA - 1
        IN  IF s = NHCD_BANKTABLE_ADDRESS_LBA
            THEN cpu_to_be32(hm) \o SubSeq(BankTableHeader, 5, RVTH_BLOCK_SIZE)
            ELSE IF i \in 0..(RVTH_BANK_COUNT - 1)
            THEN NHCD_BankEntry(
                    cpu_to_be32(IF i = k THEN g
                                ELSE StoredMagics[((i + rot) % RVTH_BANK_COUNT) + 1]),
                    Fill(14, 48), CHOOSE t \in Timestamps : t[4] = 56,
                    cpu_to_be32(LbaPairs[(i % Len(LbaPairs)) + 1][1]),
                    cpu_to_be32(LbaPairs[(i % Len(LbaPairs)) + 1][2]),
                    Fill(472, 85))
            ELSE InitialDisk[s]]

\* A store about to be opened: no handle yet.
ParseInit ==
    /\ type = RVTH_ImageType_Unknown
    /\ bank_count = 0
    /\ entries = << >>
    /\ f_device \in BOOLEAN
    /\ f_writable = FALSE
    /\ \E hm \in HeaderMagics, rot \in 0..MaxRotation, k \in (-1)..(RVTH_BANK_COUNT - 1),
          g \in GarbageMagics :
            disk = TableDisk(hm, rot, k, g)
    /\ f_pos = 0
    /\ errno = 0
    /\ phase = "idle"
    /\ call = NoCall
    /\ ret = 0
    /\ ops = << >>
    /\ pre = Snapshot
    /\ block = << >>
    /\ block_empty = TRUE
    /\ readers = << >>
    /\ reads = << >>
    /\ devices = << >>
    /\ pErr = [null |-> TRUE, val |-> 0]
    /\ query = NoQuery

ParseNext == parse

ParseSpec == ParseInit /\ [][ParseNext]_vars

\* ------------------------------------------------------------------ Reader
\* The sectors modelled of the store that Readers are opened on: its first
\* two and its last ones, from sector 99 on.
ReaderSectors == {0, 1} \cup (99..(StoreSectors - 1))

\* Its bytes: every sector differs from the others and from byte to byte.
ReaderDisk ==
    [s \in ReaderSectors |-> [k \in 1..RVTH_BLOCK_SIZE |-> (7 * s + k) % 251]]

\* Size of store d in bytes: it ends with its last sector.
ref_get_size(d) ==
    LBA_TO_BYTES((CHOOSE s \in DOMAIN d : \A t \in DOMAIN d : t <= s) + 1)

\* ref_read(): up to n bytes of store d from file position pos on; fewer than
\* n where the store ends.
ref_read(d, pos, n) ==
    LET m == Max(0, Min(n, ref_get_size(d) - pos))
    IN  [k \in 1..m |->
            d[(pos + k - 1) \div RVTH_BLOCK_SIZE][((pos + k - 1) % RVTH_BLOCK_SIZE) + 1]]

\* reader_plain_open(file, lba_start, lba_len): the Reader keeps the window.
plain_open(lba_start, lba_len) == [lba_start |-> lba_start, lba_len |-> lba_len]

\* Mutant of reader_is_bounded: a length of 0 alone means the entire file.
reader_is_bounded_LenOnly(rd) == rd.lba_len # 0

\* "If lba_start == 0 and lba_len == 0, the entire file will be used."
reader_is_bounded(rd) == ~(rd.lba_start = 0 /\ rd.lba_len = 0)

\* size(): the window length, or the full store length if unbounded.
reader_size(rd, d) ==
    IF reader_is_bounded(rd) THEN LBA_TO_BYTES(rd.lba_len) ELSE ref_get_size(d)

\* Mutant of read_in_window: the last byte of the request is not counted.
read_in_window_OffByOne(rd, offset, length) ==
    ~reader_is_bounded(rd) \/ offset + length - 1 <= LBA_TO_BYTES(rd.lba_len)

\* The bounds check of read_at(offset, length), made when the window is bounded.
read_in_window(rd, offset, length) ==
    ~reader_is_bounded(rd) \/ offset + length <= LBA_TO_BYTES(rd.lba_len)

\* Mutant of read_offset: the start of the window is not added.
read_offset_NoStart(rd, offset) == offset

\* The absolute store offset of offset in the window of rd.
read_offset(rd, offset) == LBA_TO_BYTES(rd.lba_start) + offset

\* A Reader's read call: pc is "idle", "seeked" (the store's file position was
\* set, the transfer is still to come) or "done"; calls counts its completed
\* calls; abs is the offset it sought, from the file position its transfer
\* read at, alone whether no other Reader used the store in between; size is
\* what size() returned when the Reader was opened.
NoRead ==
    [pc |-> "idle", calls |-> 0, offset |-> 0, length |-> 0, abs |-> 0, from |-> 0,
     bytes |-> << >>, err |-> "none", alone |-> TRUE, size |-> 0]

\* read_at(offset, length), first half: the bounds check and, if it passes,
\* the seek to the translated offset.
read_seek(rd, t, offset, length) ==
    IF ~read_in_window(rd, offset, length)
    THEN [t EXCEPT !.pc = "done", !.calls = @ + 1, !.offset = offset,
                   !.length = length, !.abs = 0, !.from = 0, !.bytes = << >>,
                   !.err = "out_of_range", !.alone = TRUE]
    ELSE [t EXCEPT !.pc = "seeked", !.offset = offset, !.length = length,
                   !.abs = read_offset(rd, offset), !.from = 0, !.bytes = << >>,
                   !.err = "none", !.alone = TRUE]

\* read_at(offset, length), second half: the transfer at the store's file
\* position pos; a short transfer is an I/O error.
read_transfer(d, t, pos) ==
    LET b == ref_read(d, pos, t.length)
    IN  [t EXCEPT !.pc = "done", !.calls = @ + 1, !.from = pos,
                  !.bytes = IF Len(b) = t.length THEN b ELSE << >>,
                  !.err = IF Len(b) = t.length THEN "none" ELSE "io"]

\* (lba_start, lba_len) given to reader_plain_open().
Windows == << << 100, 10 >>, << 0, 0 >>, << 105, 7 >>, << 0, 2 >>, << 99, 0 >> >>
\* (offset, length) given to read_at().
Requests ==
    << << 5119, 1 >>, << 5120, 1 >>, << 0, 2 >>, << 511, 2 >>, << 5118, 4 >>,
       << 1024, 0 >>, << 1023, 2 >>, << LBA_TO_BYTES(StoreSectors) - 1, 2 >> >>

\* The bytes of the request lie in sectors of the store that are modelled.
Modelled(rd, q) ==
    read_in_window(rd, q[1], q[2])
        => \A b \in read_offset(rd, q[1])..(read_offset(rd, q[1]) + q[2] - 1) :
            b < ref_get_size(disk) => (b \div RVTH_BLOCK_SIZE) \in DOMAIN disk

\* One Reader at a time is opened on the store.
reader_plain_open ==
    /\ readers = << >>
    /\ \E w \in 1..Len(Windows) :
        LET rd == plain_open(Windows[w][1], Windows[w][2])
        IN  /\ readers' = << rd >>
            /\ reads' = << [NoRead EXCEPT !.size = reader_size(rd, disk)] >>
    /\ UNCHANGED << handleVars, f_writable, disk, f_pos, errno, phase, call, ret,
                    ops, pre, scanVars, queryVars >>

\* read_at() as one call that runs to its end.
reader_read ==
    /\ \E r \in 1..Len(readers), q \in 1..Len(Requests) :
        /\ reads[r].calls < MaxReadCalls
        /\ reads[r].pc # "seeked"
        /\ Modelled(readers[r], Requests[q])
        /\ LET t1 == read_seek(readers[r], reads[r], Requests[q][1], Requests[q][2])
               t2 == read_transfer(disk, t1, t1.abs)
           IN  IF t1.pc = "done"
               THEN /\ reads' = [reads EXCEPT ![r] = t1]
                    /\ f_pos' = f_pos
               ELSE /\ reads' = [reads EXCEPT ![r] = t2]
                    /\ f_pos' = t1.abs + Len(t2.bytes)
    /\ UNCHANGED << handleVars, f_writable, disk, errno, phase, call, ret, ops, pre,
                    scanVars, readers, queryVars >>

\* A handle on a store image, no Reader opened yet.
ReaderInit ==
    /\ type = RVTH_ImageType_HDD_Image
    /\ bank_count = RVTH_BANK_COUNT
    /\ entries = EntryTable(RVTH_BANK_COUNT, 0, {})
    /\ f_device = FALSE
    /\ f_writable = FALSE
    /\ disk = ReaderDisk
    /\ f_pos \in {0, LBA_TO_BYTES(NHCD_BANKTABLE_ADDRESS_LBA + 1)}
    /\ errno = 0
    /\ phase = "idle"
    /\ call = NoCall
    /\ ret = 0
    /\ ops = << >>
    /\ pre = Snapshot
    /\ block = << >>
    /\ block_empty = TRUE
    /\ readers = << >>
    /\ reads = << >>
    /\ devices = << >>
    /\ pErr = [null |-> TRUE, val |-> 0]
    /\ query = NoQuery

ReaderNext == reader_plain_open \/ reader_read

ReaderSpec == ReaderInit /\ [][ReaderNext]_vars

\* Reads in flight at the same time: the store is reached through the one
\* RefFile of the handle, by a seek and then a transfer at its file position,
\* and the calls of different Readers interleave between the two.
ConcurrentWindows == {<< 100, 10 >>, << 105, 7 >>, << 0, 2 >>}
ConcurrentRequests == {<< 0, 2 >>, << 511, 2 >>}

\* Another Reader used the store: the Readers between seek and transfer, r
\* excepted, are no longer alone.
Disturb(rs, r) ==
    [i \in 1..Len(rs) |->
        IF i # r /\ rs[i].pc = "seeked" THEN [rs[i] EXCEPT !.alone = FALSE] ELSE rs[i]]

reader_read_seek(r) ==
    /\ reads[r].pc = "idle"
    /\ \E q \in ConcurrentRequests :
        LET t == read_seek(readers[r], reads[r], q[1], q[2])
        IN  IF t.pc = "done"
            THEN /\ reads' = [reads EXCEPT ![r] = t]
                 /\ f_pos' = f_pos
            ELSE /\ reads' = [Disturb(reads, r) EXCEPT ![r] = t]
                 /\ f_pos' = t.abs
    /\ UNCHANGED << handleVars, f_writable, disk, errno, phase, call, ret, ops, pre,
                    scanVars, readers, queryVars >>

reader_read_transfer(r) ==
    /\ reads[r].pc = "seeked"
    /\ reads' = [Disturb(reads, r) EXCEPT ![r] = read_transfer(disk, reads[r], f_pos)]
    /\ f_pos' = f_pos + Len(ref_read(disk, f_pos, reads[r].length))
    /\ UNCHANGED << handleVars, f_writable, disk, errno, phase, call, ret, ops, pre,
                    scanVars, readers, queryVars >>

\* MaxReaders Readers opened on the store of one handle.
ReadersInit ==
    /\ type = RVTH_ImageType_HDD_Image
    /\ bank_count = RVTH_BANK_COUNT
    /\ entries = EntryTable(RVTH_BANK_COUNT, 0, {})
    /\ f_device = FALSE
    /\ f_writable = FALSE
    /\ disk = ReaderDisk
    /\ f_pos = 0
    /\ errno = 0
    /\ phase = "idle"
    /\ call = NoCall
    /\ ret = 0
    /\ ops = << >>
    /\ pre = Snapshot
    /\ block = << >>
    /\ block_empty = TRUE
    /\ readers \in [1..MaxReaders -> {plain_open(w[1], w[2]) : w \in ConcurrentWindows}]
    /\ reads = [r \in 1..MaxReaders |->
                    [NoRead EXCEPT !.size = reader_size(readers[r], disk)]]
    /\ devices = << >>
    /\ pErr = [null |-> TRUE, val |-> 0]
    /\ query = NoQuery

ReadersNext ==
    \E r \in 1..MaxReaders : reader_read_seek(r) \/ reader_read_transfer(r)

ReadersSpec == ReadersInit /\ [][ReadersNext]_vars

\* ---------------------------------------------------------- device query
RVTH_READER_VID == 1406
RVTH_READER_PID == 772
SerialMin == 10000000
SerialMax == 29999999

\* Text is held as the tuple of its character codes.
\* "USB\VID_", "&PID_", "\", "USB\Vid_", "&Pid_", "SCSI\DISK"
Text_USB_VID == << 85, 83, 66, 92, 86, 73, 68, 95 >>
Text_PID == << 38, 80, 73, 68, 95 >>
Text_Backslash == << 92 >>
Text_USB_Vid == << 85, 83, 66, 92, 86, 105, 100, 95 >>
Text_Pid == << 38, 80, 105, 100, 95 >>
Text_SCSI == << 83, 67, 83, 73, 92, 68, 73, 83, 75 >>

\* _totupper() on every character of the instance ID.
totupper(c) == IF c \in 97..122 THEN c - 32 ELSE c
Upper(s) == [k \in 1..Len(s) |-> totupper(s[k])]

\* A digit of base b (10 or 16), and its value.
IsDigit(c, b) ==
    \/ c \in 48..57
    \/ b = 16 /\ (c \in 65..70 \/ c \in 97..102)
DigitValue(c) == IF c <= 57 THEN c - 48 ELSE IF c <= 70 THEN c - 55 ELSE c - 87

\* A %04hX or %08u conversion: the digits of base b of s from position p on,
\* at most w of them; n is their number and val their value.
RECURSIVE ScanDigits(_, _, _, _, _)
ScanDigits(s, p, w, b, acc) ==
    IF w = 0 \/ p > Len(s) \/ ~IsDigit(s[p], b) THEN acc
    ELSE ScanDigits(s, p + 1, w - 1, b,
                    [n |-> acc.n + 1, val |-> acc.val * b + DigitValue(s[p])])

\* The literal text lit of the format is at position p of s.
Literal(s, p, lit) ==
    p + Len(lit) - 1 <= Len(s) /\ SubSeq(s, p, p + Len(lit) - 1) = lit

\* _stscanf(s, "USB\\VID_%04hX&PID_%04hX\\%08u", &vid, &pid, &hw_serial): ret is
\* the number of conversions made; a variable not converted keeps its 0.
stscanf(s) ==
    LET none == [n |-> 0, val |-> 0]
        v == ScanDigits(s, Len(Text_USB_VID) + 1, 4, 16, none)
        p2 == Len(Text_USB_VID) + 1 + v.n
        p == ScanDigits(s, p2 + Len(Text_PID), 4, 16, none)
        p3 == p2 + Len(Text_PID) + p.n
        u == ScanDigits(s, p3 + 1, 8, 10, none)
    IN  IF ~Literal(s, 1, Text_USB_VID) \/ v.n = 0
        THEN [ret |-> 0, vid |-> 0, pid |-> 0, hw_serial |-> 0]
        ELSE IF ~Literal(s, p2, Text_PID) \/ p.n = 0
        THEN [ret |-> 1, vid |-> v.val, pid |-> 0, hw_serial |-> 0]
        ELSE IF ~Literal(s, p3, Text_Backslash) \/ u.n = 0
        THEN [ret |-> 2, vid |-> v.val, pid |-> p.val, hw_serial |-> 0]
        ELSE [ret |-> 3, vid |-> v.val, pid |-> p.val, hw_serial |-> u.val]

\* _sntprintf(buf, "%08u", hw_serial)
Format08u(n) == [k \in 1..8 |-> 48 + ((n \div (10 ^ (8 - k))) % 10)]

\* _sntprintf(s_devicePath, "\\\\.\\PhysicalDrive%u", DeviceNumber), for one digit.
PhysicalDrive(n) ==
    << 92, 92, 46, 92, 80, 104, 121, 115, 105, 99, 97, 108, 68, 114, 105, 118, 101,
       48 + n >>

\* ------- the disks the system enumerates
\* The instance ID the system gives for a USB parent with the IDs vid and pid
\* and the serial number serial: hexadecimal in upper or in lower case.
HexChar(d, lower) == IF d < 10 THEN 48 + d ELSE (IF lower THEN 87 ELSE 55) + d
Hex4(v, lower) ==
    << HexChar((v \div 4096) % 16, lower), HexChar((v \div 256) % 16, lower),
       HexChar((v \div 16) % 16, lower), HexChar(v % 16, lower) >>
InstanceId(vid, pid, serial, lower) ==
    (IF lower THEN Text_USB_Vid ELSE Text_USB_VID) \o Hex4(vid, lower)
        \o (IF lower THEN Text_Pid ELSE Text_PID) \o Hex4(pid, lower)
        \o Text_Backslash \o Format08u(serial)

\* An RVT-H Reader that every call of the scan succeeds on.
GoodDevice ==
    [usb |-> TRUE, vid |-> RVTH_READER_VID, pid |-> RVTH_READER_PID,
     serial |-> SerialMin, parent |-> TRUE,
     usb_id |-> InstanceId(RVTH_READER_VID, RVTH_READER_PID, SerialMin, FALSE),
     disk_id |-> TRUE, open |-> "ok", is_disk |-> TRUE, number |-> 1,
     prop_ok |-> TRUE, model |-> "WDC WD5000", len_ok |-> TRUE, length |-> 1000204886]

\* A second Reader, its ID in lower case, the property query failing.
SecondDevice ==
    [GoodDevice EXCEPT !.serial = SerialMax,
        !.usb_id = InstanceId(RVTH_READER_VID, RVTH_READER_PID, SerialMax, TRUE),
        !.number = 2, !.prop_ok = FALSE, !.model = "ST3500", !.length = 2000398934]

\* The disks that are enumerated: the two Readers, a Reader whose length query
\* fails, and disks that one of the filters drops.
DeviceKinds ==
    { GoodDevice, SecondDevice,
      [GoodDevice EXCEPT !.serial = 20000001, !.number = 3, !.len_ok = FALSE,
          !.usb_id = InstanceId(RVTH_READER_VID, RVTH_READER_PID, 20000001, FALSE)],
      [GoodDevice EXCEPT !.vid = 1407, !.number = 4,
          !.usb_id = InstanceId(1407, RVTH_READER_PID, SerialMin, FALSE)],
      [GoodDevice EXCEPT !.pid = 773, !.number = 4,
          !.usb_id = InstanceId(RVTH_READER_VID, 773, SerialMin, FALSE)],
      [GoodDevice EXCEPT !.serial = SerialMin - 1, !.number = 4,
          !.usb_id = InstanceId(RVTH_READER_VID, RVTH_READER_PID, SerialMin - 1, FALSE)],
      [GoodDevice EXCEPT !.serial = SerialMax + 1, !.number = 4,
          !.usb_id = InstanceId(RVTH_READER_VID, RVTH_READER_PID, SerialMax + 1, FALSE)],
      [GoodDevice EXCEPT !.usb = FALSE, !.number = 0, !.usb_id = Text_SCSI],
      [GoodDevice EXCEPT !.parent = FALSE, !.number = 4],
      [GoodDevice EXCEPT !.disk_id = FALSE, !.number = 4],
      [GoodDevice EXCEPT !.open = "denied", !.number = 4],
      [GoodDevice EXCEPT !.open = "error", !.number = 4],
      [GoodDevice EXCEPT !.is_disk = FALSE, !.number = 4] }

\* ------- rvth_query_devices()
\* The scan's variables: heap holds the nodes malloc() returned, a node's
\* address is its index and 0 is NULL; freed, the nodes given back; mallocs,
\* the calls of malloc() so far; perr, the int behind pErr; stop, the loop was
\* left by break; abort, the error that stopped the scan.
ScanStart ==
    [heap |-> << >>, head |-> 0, tail |-> 0, freed |-> {}, mallocs |-> 0,
     perr |-> pErr.val, stop |-> FALSE, abort |-> "none"]

\* What malloc() returns is not initialized: hdd_model holds junk.
NewNode(junk) ==
    [next |-> 0, device_name |-> << >>, usb_serial |-> << >>, hdd_model |-> junk,
     size |-> 0]
JunkValues == {"", "\\junk"}

\* The nodes of the list that starts at address a, in order.
RECURSIVE Chain(_, _, _)
Chain(heap, a, fuel) ==
    IF a = 0 \/ fuel = 0 THEN << >>
    ELSE << a >> \o Chain(heap, heap[a].next, fuel - 1)

\* "rvth_query_free(list_head); list_head = NULL; list_tail = NULL;"
free_list(q) ==
    LET c == Chain(q.heap, q.head, Len(q.heap))
    IN  [q EXCEPT !.freed = @ \cup {c[k] : k \in 1..Len(c)}, !.head = 0, !.tail = 0]

\* "if (pErr) *pErr = e"
store_err(q, e) == IF pErr.null THEN q ELSE [q EXCEPT !.perr = e]

\* "Create a list entry": ok is whether malloc() returns memory. With a list
\* in place the new node is stored in list_tail->next, which is then set to
\* NULL; list_tail stays where it is.
list_add(q, ok, junk) ==
    LET q1 == [q EXCEPT !.mallocs = @ + 1]
        a == Len(q.heap) + 1
    IN  IF q.head = 0
        THEN IF ~ok
             THEN [q1 EXCEPT !.stop = TRUE, !.abort = "nomem"]
             ELSE [q1 EXCEPT !.heap = Append(@, NewNode(junk)), !.head = a, !.tail = a]
        ELSE IF ~ok
             THEN [free_list(q1) EXCEPT !.stop = TRUE, !.abort = "nomem"]
             ELSE [q1 EXCEPT !.heap =
                        [Append(@, NewNode(junk)) EXCEPT ![q.tail].next = 0]]

\* The fields of *list_tail are set from the device d and the serial number
\* hw_serial of its ID.
fill_entry(q, d, hw_serial) ==
    [q EXCEPT !.heap[q.tail] =
        [@ EXCEPT !.device_name = PhysicalDrive(d.number),
                  !.usb_serial = Format08u(hw_serial),
                  !.hdd_model = IF d.prop_ok THEN d.model ELSE @,
                  !.size = IF d.len_ok THEN d.length ELSE 0]]

\* One pass of the loop, for the enumerated disk d; the fail_at-th call of
\* malloc() returns NULL.
query_device(q, d, fail_at, junk) ==
    LET id == stscanf(Upper(d.usb_id))
        q1 == list_add(q, q.mallocs + 1 # fail_at, junk)
    IN  IF ~d.parent THEN q
        ELSE IF id.ret # 3 THEN q
        ELSE IF id.vid # RVTH_READER_VID \/ id.pid # RVTH_READER_PID THEN q
        ELSE IF id.hw_serial < SerialMin \/ id.hw_serial > SerialMax THEN q
        ELSE IF ~d.disk_id THEN q
        ELSE IF d.open = "denied"
        THEN [free_list(store_err(q, EACCES)) EXCEPT !.stop = TRUE, !.abort = "denied"]
        ELSE IF d.open # "ok" THEN q
        ELSE IF ~d.is_disk THEN q
        ELSE IF q1.stop THEN q1
        ELSE fill_entry(q1, d, id.hw_serial)

\* "while (SetupDiEnumDeviceInfo(hDevInfoSet, devIndex, &devInfoData))"
RECURSIVE scan_devices(_, _, _, _)
scan_devices(q, devIndex, fail_at, junk) ==
    IF devIndex >= Len(devices) \/ q.stop THEN q
    ELSE scan_devices(query_device(q, devices[devIndex + 1], fail_at, junk),
                      devIndex + 1, fail_at, junk)

\* rvth_query_devices(pErr): devset_ok is whether SetupDiGetClassDevs() succeeds.
query_devices(devset_ok, fail_at, junk) ==
    IF ~devset_ok
    THEN [store_err(ScanStart, EIO) EXCEPT !.abort = "devset"]
    ELSE scan_devices(ScanStart, 0, fail_at, junk)

\* The call: list is the returned list (its entries in order, << >> for NULL),
\* leaked the nodes that are neither returned nor freed.
rvth_query_devices ==
    /\ ~query.called
    /\ \E devset_ok \in BOOLEAN, fail_at \in 0..MaxDevices, junk \in JunkValues :
        LET q == query_devices(devset_ok, fail_at, junk)
            c == Chain(q.heap, q.head, Len(q.heap))
        IN  /\ query' = [called |-> TRUE,
                         list |-> [k \in 1..Len(c) |-> q.heap[c[k]]],
                         abort |-> q.abort,
                         mallocs |-> q.mallocs,
                         leaked |-> Len(q.heap) - Cardinality(q.freed) - Len(c)]
            /\ pErr' = [pErr EXCEPT !.val = q.perr]
    /\ UNCHANGED << handleVars, f_writable, disk, f_pos, errno, phase, call, ret,
                    ops, pre, scanVars, readerVars, devices >>

\* The lists of at most n different disks.
RECURSIVE DeviceLists(_)
DeviceLists(n) ==
    IF n = 0 THEN {<< >>}
    ELSE DeviceLists(n - 1)
            \cup UNION {{Append(l, d) : d \in DeviceKinds \ {l[k] : k \in 1..Len(l)}} :
                            l \in {x \in DeviceLists(n - 1) : Len(x) = n - 1}}

\* The disks of the system and the caller's pErr: NULL, or an int that holds 0
\* or what an earlier call left.

QueryInit ==
    /\ type = RVTH_ImageType_Unknown
    /\ bank_count = 0
    /\ entries = << >>
    /\ f_device = FALSE
    /\ f_writable = FALSE
    /\ disk = << >>
    /\ f_pos = 0
    /\ errno = 0
    /\ phase = "idle"
    /\ call = NoCall
    /\ ret = 0
    /\ ops = << >>
    /\ pre = Snapshot
    /\ block = << >>
    /\ block_empty = TRUE
    /\ readers = << >>
    /\ reads = << >>
    /\ devices \in DeviceLists(MaxDevices)
    /\ pErr \in {[null |-> TRUE, val |-> 0], [null |-> FALSE, val |-> 0],
                  [null |-> FALSE, val |-> EIO]}
    /\ query = NoQuery

QueryNext == rvth_query_devices

QuerySpec == QueryInit /\ [][QueryNext]_vars

\* ------------------------------------------------------------ zero scanner
\* x | y on bytes.
Or8(x, y) ==
    LET bit(v, k) == (v \div (2 ^ k)) % 2
        or(k) == IF bit(x, k) = 1 \/ bit(y, k) = 1 THEN 2 ^ k ELSE 0
    IN  or(0) + or(1) + or(2) + or(3) + or(4) + or(5) + or(6) + or(7)

\* x | y on uint64_t values, each held as its 8 bytes in memory.
Or64(x, y) == [k \in 1..8 |-> Or8(x[k], y[k])]

\* block64[w]: the w-th uint64_t of the block.
Block64(blk, w) == SubSeq(blk, 8 * w + 1, 8 * w + 8)

\* Mutant of GroupOr: the last word of the group is not read.
GroupOr_Skip7(blk, g) ==
    LET b(k) == Block64(blk, 8 * g + k)
    IN  Or64(Or64(Or64(Or64(Or64(Or64(b(0), b(1)), b(2)), b(3)), b(4)), b(5)), b(6))

\* x after "x = block64[0]; x |= block64[1]; ... x |= block64[7]" on group g.
GroupOr(blk, g) ==
    LET b(k) == Block64(blk, 8 * g + k)
    IN  Or64(Or64(Or64(Or64(Or64(Or64(Or64(b(0), b(1)), b(2)), b(3)), b(4)), b(5)),
                  b(6)), b(7))

\* The loop "for (i = size/8/8; i > 0; i--, block64 += 8)" from group g on.
RECURSIVE ScanLoop(_, _, _)
ScanLoop(blk, i, g) ==
    IF i = 0 THEN TRUE
    ELSE IF GroupOr(blk, g) # Zeros(8) THEN FALSE
    ELSE ScanLoop(blk, i - 1, g + 1)

\* Number of loop iterations for a block of size bytes.
ScanGroups(size) == (size \div 8) \div 8

is_block_empty(blk, size) == ScanLoop(blk, ScanGroups(size), 0)

\* Blocks given to the scanner, of g 64-byte groups: all zero, one bit set
\* anywhere, and one byte value at two places 8 bytes apart.
SetByte(blk, p, v) == [blk EXCEPT ![p] = v]
ScanBlocks(g) ==
    {Zeros(64 * g)}
        \cup {SetByte(Zeros(64 * g), p, 2 ^ k) : p \in 1..(64 * g), k \in 0..7}
        \cup {SetByte(SetByte(Zeros(64 * g), p, 255), p + 8, 255) : p \in 1..(64 * g - 8)}

rvth_is_block_empty ==
    /\ phase = "idle"
    /\ \E g \in 0..MaxGroups : \E blk \in ScanBlocks(g) :
        /\ block' = blk
        /\ block_empty' = is_block_empty(blk, Len(blk))
    /\ call' = [fn |-> "rvth_is_block_empty", bank |-> 0, null |-> FALSE]
    /\ phase' = "done"
    /\ UNCHANGED << handleVars, f_writable, disk, f_pos, errno, ret, ops, pre,
                    readerVars, queryVars >>

\* The scanner on its own, beside one handle.
ScanInit ==
    /\ Init
    /\ type = RVTH_ImageType_HDD_Reader
    /\ entries = EntryTable(RVTH_BANK_COUNT, 0, {})
    /\ f_writable
    /\ errno = 0

ScanNext == rvth_is_block_empty

ScanSpec == ScanInit /\ [][ScanNext]_vars

Next == rvth_make_writable \/ rvth_write_BankEntry

Spec == Init /\ [][Next]_vars

\* ================================================================ claims
WriteCall == call.fn = "rvth_write_BankEntry" /\ ~call.null
GateCall == call.fn = "rvth_make_writable"
IsHdd == rvth_is_hdd(type)
InRange == call.bank < bank_count
Made(name) == \E i \in 1..Len(ops) : ops[i].op = name
CountOps(name) == Cardinality({i \in 1..Len(ops) : ops[i].op = name})
\* The sector of the bank table that holds the entry of bank i.
Slot(i) == NHCD_BANKTABLE_ADDRESS_LBA + i + 1
\* The in-memory entry the call is about, once the call has read it.
Target == entries[call.bank]
Serialized == WriteCall /\ Made("entries")

\* C1: a bank entry write on an HDD handle whose store is a non-writable
\* regular file, with a valid bank number, fails with RVTH_ERROR_NOT_A_DEVICE,
\* makes no seek and no write, and leaves every byte of the store as it was.
C1_ReadOnlyFileRefused ==
    (WriteCall /\ IsHdd /\ ~f_device /\ ~pre.writable /\ InRange)
        => /\ ret = RVTH_ERROR_NOT_A_DEVICE
           /\ ~Made("ref_seeko")
           /\ ~Made("ref_write")
           /\ disk = pre.disk

C1_Witness ==
    /\ WriteCall /\ IsHdd /\ ~f_device /\ ~pre.writable /\ InRange
    /\ Target.type = RVTH_BankType_GCN /\ ~Target.is_deleted
    /\ ret = RVTH_ERROR_NOT_A_DEVICE

\* C2: a bank entry write with bank >= bank_count on an HDD handle fails with
\* -ERANGE before anything else runs: no gate, no escalation, no entry read,
\* no seek, no write, whatever the writability and the entries.
C2_RangeErrorFirst ==
    (WriteCall /\ IsHdd /\ ~InRange)
        => /\ ret = -ERANGE
           /\ ops = << >>
           /\ disk = pre.disk
           /\ f_writable = pre.writable

C2_Witness ==
    /\ WriteCall /\ IsHdd /\ call.bank = RVTH_BANK_COUNT
    /\ f_device /\ ~pre.writable
    /\ ret = -ERANGE

\* C3: the checks are made in order: a standalone image fails with
\* RVTH_ERROR_NOT_HDD_IMAGE for every bank number and writability, without the
\* gate; an HDD handle with a bank number out of range fails with -ERANGE
\* without the gate; the gate runs exactly for an HDD handle with a bank number
\* in range, and its error is the call's return value.
C3_PreconditionOrder ==
    WriteCall =>
        /\ ~IsHdd => (ret = RVTH_ERROR_NOT_HDD_IMAGE /\ ops = << >>)
        /\ (IsHdd /\ ~InRange) => (ret = -ERANGE /\ ~Made("rvth_make_writable"))
        /\ Made("rvth_make_writable") <=> (IsHdd /\ InRange)
        /\ \A i \in 1..Len(ops) :
            (ops[i].op = "rvth_make_writable" /\ ops[i].res # 0)
                => (ret = ops[i].res /\ i = Len(ops))

C3_Witness ==
    /\ WriteCall /\ ~IsHdd /\ ~InRange /\ pre.writable
    /\ ret = RVTH_ERROR_NOT_HDD_IMAGE

\* C4 as stated: an entry of type Unknown or Wii_DL_Bank2 that reaches the
\* serialization always fails with its own error and nothing is written,
\* whatever its other fields, is_deleted included.
C4_Original ==
    (Serialized /\ Target.type \in {RVTH_BankType_Unknown, RVTH_BankType_Wii_DL_Bank2})
        => /\ ret = (IF Target.type = RVTH_BankType_Unknown
                     THEN RVTH_ERROR_BANK_UNKNOWN ELSE RVTH_ERROR_BANK_DL_2)
           /\ ~Made("ref_write")
           /\ disk = pre.disk

\* C4 amended: an entry of type Unknown or Wii_DL_Bank2 that is not deleted
\* fails with its own error and nothing is written, whatever its LBA fields;
\* one that is deleted is not refused: the write of its slot is attempted and,
\* when it succeeds, the slot is all zero.
C4_RejectedUnlessDeleted ==
    (Serialized /\ Target.type \in {RVTH_BankType_Unknown, RVTH_BankType_Wii_DL_Bank2})
        => IF ~Target.is_deleted
           THEN /\ ret = (IF Target.type = RVTH_BankType_Unknown
                          THEN RVTH_ERROR_BANK_UNKNOWN ELSE RVTH_ERROR_BANK_DL_2)
                /\ ~Made("ref_seeko")
                /\ ~Made("ref_write")
                /\ disk = pre.disk
           ELSE /\ ret \notin {RVTH_ERROR_BANK_UNKNOWN, RVTH_ERROR_BANK_DL_2}
                /\ Made("ref_seeko")
                /\ ret = 0 => disk[Slot(call.bank)] = ZeroEntry

C4_Witness ==
    /\ Serialized /\ ~Target.is_deleted
    /\ Target.type = RVTH_BankType_Wii_DL_Bank2 /\ Target.lba_len > 0
    /\ ret = RVTH_ERROR_BANK_DL_2

\* C5: a deleted entry is serialized as 512 zero bytes whatever its type and
\* LBA fields, and the record a successful write leaves in the slot parses
\* back as type Empty.
C5_DeletedWritesZeros ==
    /\ \A i \in DOMAIN entries : \A ts \in Timestamps :
        entries[i].is_deleted
            => create_bank_entry(entries[i], ts) = [ret |-> 0, rec |-> ZeroEntry]
    /\ (Serialized /\ Target.is_deleted /\ ret = 0)
        => /\ disk[Slot(call.bank)] = ZeroEntry
           /\ parse_entry(disk[Slot(call.bank)]).type = RVTH_BankType_Empty

C5_Witness ==
    /\ Serialized /\ Target.is_deleted /\ ret = 0
    /\ Target.type = RVTH_BankType_Wii_DL /\ Target.lba_len > 0
    /\ pre.disk[Slot(call.bank)] # ZeroEntry
    /\ disk[Slot(call.bank)] = ZeroEntry

\* The type and LBA fields the table parse reads back from the slot of the call.
ReadBack == parse_entry(disk[Slot(call.bank)])
Fields(e) == [type |-> e.type, lba_start |-> e.lba_start, lba_len |-> e.lba_len]

\* C6 as stated: for a non-deleted entry of type Empty, GCN, Wii_SL or Wii_DL
\* with lba_len > 0, the record a successful write leaves in the slot parses
\* back to the entry's type, lba_start and lba_len.
C6_Original ==
    (Serialized /\ ret = 0 /\ ~Target.is_deleted /\ Target.lba_len > 0
        /\ Target.type \in {RVTH_BankType_Empty, RVTH_BankType_GCN,
                            RVTH_BankType_Wii_SL, RVTH_BankType_Wii_DL})
        => ReadBack = Fields(Target)

\* C6 amended: the round trip reproduces type, lba_start and lba_len for a
\* non-deleted entry of type GCN, Wii_SL or Wii_DL with lba_len > 0; for a
\* non-deleted entry of type Empty the record is all zero, so the type is
\* reproduced but the entry's LBA values are not: both fields of the record are 0.
C6_RoundTrip ==
    /\ (Serialized /\ ret = 0 /\ ~Target.is_deleted /\ Target.lba_len > 0
            /\ Target.type \in {RVTH_BankType_GCN, RVTH_BankType_Wii_SL,
                                RVTH_BankType_Wii_DL})
        => ReadBack = Fields(Target)
    /\ (Serialized /\ ret = 0 /\ ~Target.is_deleted
            /\ Target.type = RVTH_BankType_Empty)
        => /\ disk[Slot(call.bank)] = ZeroEntry
           /\ ReadBack = [type |-> RVTH_BankType_Empty, lba_start |-> 0, lba_len |-> 0]

C6_Witness ==
    /\ Serialized /\ ret = 0 /\ ~Target.is_deleted
    /\ Target.type = RVTH_BankType_Wii_SL
    /\ Target.lba_start = 16909060 /\ Target.lba_len = 1
    /\ ReadBack = Fields(Target)

\* C7: in one call of the bank entry write for bank i, successful or failed,
\* the only sector of the store that can change is the slot of bank i, at
\* byte offset (NHCD_BANKTABLE_ADDRESS_LBA + i + 1) * 512: the header, the
\* other slots and the payload keep their bytes.
C7_OnlyTargetSlot ==
    call.fn = "rvth_write_BankEntry" =>
        /\ \A s \in Sectors :
            disk[s] # pre.disk[s] => (WriteCall /\ InRange /\ s = Slot(call.bank))
        /\ \A i \in 1..Len(ops) :
            ops[i].op \in {"ref_seeko", "ref_write"}
                => ops[i].arg = (NHCD_BANKTABLE_ADDRESS_LBA + call.bank + 1) * 512

C7_Witness ==
    /\ WriteCall /\ call.bank = 0 /\ ret # 0
    /\ disk[Slot(0)] # pre.disk[Slot(0)]
    /\ disk[NHCD_BANKTABLE_ADDRESS_LBA] = BankTableHeader

\* C8: the gate has three outcomes: a store that reports writable gives 0 with
\* no escalation; otherwise a store that is not a device gives
\* RVTH_ERROR_NOT_A_DEVICE with no escalation; otherwise the escalation is
\* attempted once and its outcome is returned as it is.
C8_GateOutcomes ==
    GateCall =>
        /\ pre.writable
            => (ret = 0 /\ CountOps("ref_make_writable") = 0 /\ f_writable)
        /\ (~pre.writable /\ ~f_device)
            => (ret = RVTH_ERROR_NOT_A_DEVICE /\ CountOps("ref_make_writable") = 0
                /\ ~f_writable)
        /\ (~pre.writable /\ f_device)
            => (CountOps("ref_make_writable") = 1
                /\ ops[Len(ops)].op = "ref_make_writable"
                /\ ret = ops[Len(ops)].res)

C8_Witness ==
    /\ GateCall /\ ~pre.writable /\ f_device
    /\ CountOps("ref_make_writable") = 1
    /\ ret = -EACCES

\* The policy conditions of the bank entry write and the store failures.
NotHddImage == WriteCall /\ ~IsHdd
BankRange == WriteCall /\ IsHdd /\ ~InRange
NotADevice == WriteCall /\ IsHdd /\ InRange /\ ~pre.writable /\ ~f_device
BankUnknown == Serialized /\ ~Target.is_deleted /\ Target.type = RVTH_BankType_Unknown
BankDL2 == Serialized /\ ~Target.is_deleted /\ Target.type = RVTH_BankType_Wii_DL_Bank2
IOFailed ==
    \E i \in 1..Len(ops) :
        \/ ops[i].op = "ref_seeko" /\ ops[i].res # 0
        \/ ops[i].op = "ref_write" /\ ops[i].res # RVTH_BLOCK_SIZE
PolicyReturns ==
    /\ NotHddImage => ret = RVTH_ERROR_NOT_HDD_IMAGE
    /\ BankRange => ret = -ERANGE
    /\ NotADevice => ret = RVTH_ERROR_NOT_A_DEVICE
    /\ BankUnknown => ret = RVTH_ERROR_BANK_UNKNOWN
    /\ BankDL2 => ret = RVTH_ERROR_BANK_DL_2
PositivePolicyValues ==
    {RVTH_ERROR_NOT_HDD_IMAGE, RVTH_ERROR_NOT_A_DEVICE, RVTH_ERROR_BANK_UNKNOWN,
     RVTH_ERROR_BANK_DL_2}

\* C9 as stated: each of the five policy conditions returns its own value, and
\* a failed seek or write never returns one of these five values.
C9_Original ==
    /\ PolicyReturns
    /\ Cardinality(PositivePolicyValues \cup {-ERANGE}) = 5
    /\ (WriteCall /\ IOFailed) => ret \notin (PositivePolicyValues \cup {-ERANGE})

\* C9 amended: each of the five policy conditions returns its own value; the
\* four RvtH_Errors values are positive and a failed seek or write, which
\* returns a negative POSIX code, never returns one of them; the range error
\* is the negative POSIX code -ERANGE, which a failed seek or write can return.
C9_PositiveErrorsDistinct ==
    /\ PolicyReturns
    /\ Cardinality(PositivePolicyValues \cup {-ERANGE}) = 5
    /\ \A v \in PositivePolicyValues : v > 0
    /\ (WriteCall /\ IOFailed) => (ret < 0 /\ ret \notin PositivePolicyValues)

C9_Witness ==
    /\ WriteCall /\ IOFailed /\ InRange
    /\ ret = -ERANGE

\* C10: for a block whose length is a multiple of 64, 0 included, the scanner
\* returns true exactly when every byte of the block is zero.
C10_ScannerExact ==
    call.fn = "rvth_is_block_empty" =>
        /\ Len(block) % 64 = 0
        /\ block_empty <=> (\A i \in 1..Len(block) : block[i] = 0)

C10_Witness ==
    /\ call.fn = "rvth_is_block_empty"
    /\ Len(block) = 128
    /\ block = SetByte(Zeros(128), 128, 128)
    /\ ~block_empty

\* The table parse and what it is given.
ParseCall == call.fn = "parse"
TypeBytes(i) == SubSeq(disk[Slot(i)], 1, 4)
\* The bank type of the four bytes of a type magic: zero, "GC1L", "NN1L", "NN2L".
ExpectedType(b) ==
    CASE b = << 0, 0, 0, 0 >> -> RVTH_BankType_Empty
      [] b = << 71, 67, 49, 76 >> -> RVTH_BankType_GCN
      [] b = << 78, 78, 49, 76 >> -> RVTH_BankType_Wii_SL
      [] b = << 78, 78, 50, 76 >> -> RVTH_BankType_Wii_DL
      [] OTHER -> RVTH_BankType_Unknown
ValidMagics ==
    {NHCD_BankType_Empty, NHCD_BankType_GCN, NHCD_BankType_Wii_SL, NHCD_BankType_Wii_DL}
\* The store with the type magic of entry i replaced by m.
WithMagic(d, i, m) ==
    [d EXCEPT ![Slot(i)] = cpu_to_be32(m) \o SubSeq(@, 5, RVTH_BLOCK_SIZE)]

\* C11: the table parse rejects the store with the not-RVT-H error, and creates
\* no entries, exactly when the four bytes of the header magic are not "NHCD";
\* otherwise it succeeds whatever the type magics are: an entry whose magic is
\* not one of the four known ones gets type Unknown, every entry gets the
\* type of its own magic and the LBA values of its own record, and the other
\* seven entries are what they are when that magic is replaced by a valid one.
C11_ParseDegradesEntry ==
    ParseCall =>
        IF SubSeq(disk[NHCD_BANKTABLE_ADDRESS_LBA], 1, 4) # << 78, 72, 67, 68 >>
        THEN /\ ret = RVTH_ERROR_NHCD_TABLE_MAGIC
             /\ entries = << >>
             /\ bank_count = 0
        ELSE /\ ret = 0
             /\ bank_count = RVTH_BANK_COUNT
             /\ \A i \in 0..(RVTH_BANK_COUNT - 1) :
                 /\ entries[i].type = ExpectedType(TypeBytes(i))
                 /\ cpu_to_be32(entries[i].lba_start) = SubSeq(disk[Slot(i)], 33, 36)
                 /\ cpu_to_be32(entries[i].lba_len) = SubSeq(disk[Slot(i)], 37, 40)
                 /\ entries[i].type = RVTH_BankType_Unknown
                     => \A m \in ValidMagics :
                        \A j \in (0..(RVTH_BANK_COUNT - 1)) \ {i} :
                            parse_table(WithMagic(disk, i, m)).entries[j] = entries[j]

C11_Witness ==
    /\ ParseCall /\ ret = 0
    /\ TypeBytes(2) = << 0, 0, 0, 1 >>
    /\ entries[2].type = RVTH_BankType_Unknown
    /\ entries[1].type = RVTH_BankType_Wii_SL
    /\ entries[1].lba_start = 16909060 /\ entries[1].lba_len = 1
    /\ entries[3].type = RVTH_BankType_Empty

\* A read call of Reader r has returned; the bytes of the store at offset a.
ReadDone(r) == reads[r].pc = "done"
StoreBytes(a, n) ==
    [k \in 1..n |->
        disk[(a + k - 1) \div RVTH_BLOCK_SIZE][((a + k - 1) % RVTH_BLOCK_SIZE) + 1]]
Bounded(r) == readers[r].lba_start # 0 \/ readers[r].lba_len # 0

\* C12: a read of a Reader with a bounded window of lba_len sectors is
\* accepted exactly when offset + length <= lba_len * 512; every other
\* request fails with the out-of-range error and no bytes; an accepted read
\* seeks lba_start * 512 + offset and returns the length bytes of the store
\* from there. For the window (100, 10), (5119, 1) is accepted and (5120, 1)
\* is rejected.
C12_WindowBounds ==
    \A r \in 1..Len(readers) :
        (Bounded(r) /\ ReadDone(r)) =>
            LET t == reads[r]
            IN  /\ t.err = "none"
                    <=> t.offset + t.length <= readers[r].lba_len * RVTH_BLOCK_SIZE
                /\ t.err # "none" => (t.err = "out_of_range" /\ t.bytes = << >>)
                /\ t.err = "none"
                    => /\ t.abs = readers[r].lba_start * RVTH_BLOCK_SIZE + t.offset
                       /\ t.from = t.abs
                       /\ t.bytes = StoreBytes(t.abs, t.length)
                /\ (readers[r] = plain_open(100, 10) /\ t.length = 1)
                    => /\ t.offset = 5119 => t.err = "none"
                       /\ t.offset = 5120 => t.err = "out_of_range"

C12_Witness ==
    /\ Len(readers) = 1 /\ readers[1] = plain_open(100, 10)
    /\ ReadDone(1) /\ reads[1].calls = 2
    /\ reads[1].offset = 5119 /\ reads[1].length = 1
    /\ reads[1].err = "none"
    /\ reads[1].abs = 56319
    /\ reads[1].bytes = << disk[109][512] >>

\* C13: size() of a Reader opened with lba_start = 0 and lba_len = 0 is the
\* total size of the store, which is not zero; size() of a Reader opened with
\* any other pair is lba_len * 512.
C13_FullStoreSentinel ==
    \A r \in 1..Len(readers) :
        IF readers[r].lba_start = 0 /\ readers[r].lba_len = 0
        THEN reads[r].size = StoreSectors * RVTH_BLOCK_SIZE /\ reads[r].size # 0
        ELSE reads[r].size = readers[r].lba_len * RVTH_BLOCK_SIZE

C13_Witness ==
    /\ Len(readers) = 1
    /\ readers[1].lba_start = 0 /\ readers[1].lba_len = 0
    /\ reads[1].size = 57344

\* The bytes of the store at the translated offset of the read of Reader r.
OwnBytes(r) ==
    StoreBytes(readers[r].lba_start * RVTH_BLOCK_SIZE + reads[r].offset, reads[r].length)

Matches(d) ==
    /\ d.usb /\ d.parent /\ d.disk_id
    /\ d.vid = 1406 /\ d.pid = 772
    /\ d.serial >= 10000000 /\ d.serial <= 29999999
    /\ d.open = "ok" /\ d.is_disk
\* The name, serial number and size that the list entry of disk d carries.
EntryOf(d) ==
    [device_name |-> PhysicalDrive(d.number), usb_serial |-> Format08u(d.serial),
     size |-> IF d.len_ok THEN d.length ELSE 0]
Carried(e) ==
    [device_name |-> e.device_name, usb_serial |-> e.usb_serial, size |-> e.size]
Matching == SelectSeq(devices, Matches)
ScanDone == query.called /\ query.abort = "none"

\* C15: when no error stops the scan, the returned list has one entry for
\* each enumerated disk that passes every filter, in enumeration order, each
\* with the name, serial number and size of its own disk; the list is NULL
\* only when no disk passes.
C15_ListOfMatchingDevices ==
    ScanDone =>
        /\ Len(query.list) = Len(Matching)
        /\ \A k \in 1..Len(query.list) : Carried(query.list[k]) = EntryOf(Matching[k])

\* C16: with pErr not NULL, *pErr is 0 after a scan that no error stopped,
\* devices found or not, and a positive POSIX error code after a scan that an
\* error stopped (the device set could not be created, a device could not
\* be opened for lack of access, malloc() failed); a stopped scan returns
\* NULL.
C16_ErrorCodeStored ==
    (query.called /\ ~pErr.null) =>
        /\ query.abort = "none" => pErr.val = 0
        /\ query.abort # "none" => (pErr.val > 0 /\ query.list = << >>)

\* The gate's return inside the call, and the store operations after it.
GateReturned(i) == ops[i].op = "rvth_make_writable"
StoreAccess(i) == ops[i].op \in {"ref_seeko", "ref_write"}

\* C17: in a bank entry write, every seek and every write comes after the
\* gate returned 0 in that call, and the store reports writable when they are
\* made; a gate that fails ends the call with the gate's return value, without
\* a seek or a write.
C17_GateBeforeWrite ==
    call.fn = "rvth_write_BankEntry" =>
        /\ \A j \in 1..Len(ops) :
            StoreAccess(j)
                => /\ \E i \in 1..(j - 1) : GateReturned(i) /\ ops[i].res = 0
                   /\ f_writable
        /\ \A i \in 1..Len(ops) :
            (GateReturned(i) /\ ops[i].res # 0)
                => /\ ret = ops[i].res
                   /\ i = Len(ops)
                   /\ ~Made("ref_seeko") /\ ~Made("ref_write")
                   /\ disk = pre.disk

C17_Witness ==
    /\ WriteCall /\ ~pre.writable /\ f_device
    /\ \E i \in 1..Len(ops) : ops[i].op = "ref_make_writable" /\ ops[i].res = 0
    /\ Made("ref_seeko") /\ Made("ref_write")
    /\ f_writable /\ ret = 0

\* C18: a bank entry write makes at most one seek and at most one write; a
\* seek that fails ends the call with a negative POSIX code and no write; a
\* write follows a successful seek and is the last operation, and a short one
\* ends the call with a negative POSIX code; the call returns 0 only after
\* its one write stored all 512 bytes.
C18_OneSeekOneWrite ==
    call.fn = "rvth_write_BankEntry" =>
        /\ CountOps("ref_seeko") <= 1
        /\ CountOps("ref_write") <= 1
        /\ \A i \in 1..Len(ops) :
            /\ (ops[i].op = "ref_seeko" /\ ops[i].res # 0)
                => (i = Len(ops) /\ ret < 0 /\ ret = -errno /\ disk = pre.disk)
            /\ ops[i].op = "ref_write"
                => (i = Len(ops) /\ i > 1 /\ ops[i - 1].op = "ref_seeko"
                    /\ ops[i - 1].res = 0)
            /\ (ops[i].op = "ref_write" /\ ops[i].res # RVTH_BLOCK_SIZE)
                => (ret < 0 /\ ret = -errno)
        /\ (WriteCall /\ ret = 0)
            => (ops # << >> /\ ops[Len(ops)].op = "ref_write"
                /\ ops[Len(ops)].res = RVTH_BLOCK_SIZE)

C18_Witness ==
    /\ WriteCall /\ CountOps("ref_seeko") = 1 /\ CountOps("ref_write") = 1
    /\ ops[Len(ops)].op = "ref_write" /\ ops[Len(ops)].res = 36
    /\ ret = -ENOSPC
    /\ disk # pre.disk

\* A bank entry write that one of the five policy conditions refuses.
PolicyFailure == NotHddImage \/ BankRange \/ NotADevice \/ BankUnknown \/ BankDL2

\* C19 as stated: a bank entry write that fails with a policy error leaves
\* every byte of the store and the store's writability as they were.
C19_Original ==
    PolicyFailure => (disk = pre.disk /\ f_writable = pre.writable)

\* C19 amended: a bank entry write that fails with a policy error changes no
\* byte of the store; the writability is as before for the not-HDD-image,
\* range and not-a-device errors, while the unknown-bank-type and
\* dual-layer-second-bank errors come after the gate, whose escalation of a
\* device store to writable stays.
C19_PolicyErrorKeepsBytes ==
    PolicyFailure =>
        /\ disk = pre.disk
        /\ ~Made("ref_seeko") /\ ~Made("ref_write")
        /\ (NotHddImage \/ BankRange \/ NotADevice) => f_writable = pre.writable
        /\ (BankUnknown \/ BankDL2)
            => /\ f_writable
               /\ f_writable # pre.writable
                    <=> \E i \in 1..Len(ops) :
                            ops[i].op = "ref_make_writable" /\ ops[i].res = 0

C19_Witness ==
    /\ BankUnknown /\ ret = RVTH_ERROR_BANK_UNKNOWN
    /\ f_device /\ ~pre.writable /\ f_writable
    /\ disk = pre.disk

\* C20: a bank entry write, successful or failed, leaves the in-memory
\* entries, bank_count and the image type as they were; a deleted entry that
\* was written is still deleted and has its type.
C20_HandleUnchanged ==
    call.fn = "rvth_write_BankEntry" =>
        /\ entries = pre.entries
        /\ bank_count = pre.bank_count
        /\ type = pre.type
        /\ (Serialized /\ ret = 0 /\ pre.entries[call.bank].is_deleted)
            => /\ entries[call.bank].is_deleted
               /\ entries[call.bank].type = pre.entries[call.bank].type

C20_Witness ==
    /\ Serialized /\ ret = 0
    /\ pre.entries[call.bank].is_deleted
    /\ pre.entries[call.bank].type = RVTH_BankType_GCN
    /\ entries[call.bank].is_deleted
    /\ entries[call.bank].type = RVTH_BankType_GCN
    /\ disk[Slot(call.bank)] = ZeroEntry

=============================================================================
